---- MODULE Spec2Model ----
(***************************************************************************)
(* A model of tclogger.py: the spreadsheet-backed test case logger        *)
(* (XLSXLogger) and the screenshot capturer (create_screenshot).           *)
(*                                                                         *)
(* Strings that are paths are sequences of tokens: the token "/" is the    *)
(* separator character and every other token is a run of characters that   *)
(* holds no "/".  The file system is the set of the paths that exist, each *)
(* path resolved to its sequence of components.  Every other string (a     *)
(* case name, a message, a cell's text) is a sequence of tokens too, the   *)
(* empty string being <<>>.                                                *)
(***************************************************************************)
EXTENDS Integers, Sequences, FiniteSets, TLC

\* ------------------------------------------------------------------ bounds
\* Successful log calls per logger.
MaxCalls == 2
\* Readings of the clock: time_ns() returns a value of 1..MaxTime.  It is the
\* wall clock, whose resolution is the platform's and which can be set back:
\* two readings may be equal.
MaxTime == 2
\* Logger instantiations in SpecTwo.
MaxInstances == 3

Times == 1..MaxTime

\* ------------------------------------------------------------------ inputs
\* Base directories given to the constructor ("" is the default argument).
BaseDirs == { <<>>, <<"run">>, <<"run", "/">>, <<"/", "tmp", "/">> }
\* (case_name, message) pairs of a log call; message defaults to "".
Args == { << <<"login">>, <<>> >>, << <<"logout">>, <<"timeout">> >> }
\* What a collaborator call does: it returns, or it raises this exception.
Outcomes == { "ok", "OSError" }

\* The process's working directory, which relative paths resolve against.
Cwd == <<"/", "home">>

\* ----------------------------------------------------------- path strings
\* str.rstrip('/')
RECURSIVE RStrip(_)
RStrip(s) ==
    IF s = <<>> THEN s
    ELSE IF s[Len(s)] = "/" THEN RStrip(SubSeq(s, 1, Len(s) - 1))
    ELSE s

\* str.split('/') without the empty components: the components of a path.
RECURSIVE SplitFrom(_, _, _)
SplitFrom(s, i, cur) ==
    IF i > Len(s) THEN (IF cur = <<>> THEN <<>> ELSE <<cur>>)
    ELSE IF s[i] = "/"
         THEN (IF cur = <<>> THEN <<>> ELSE <<cur>>) \o SplitFrom(s, i + 1, <<>>)
         ELSE SplitFrom(s, i + 1, Append(cur, s[i]))

Split(s) == SplitFrom(s, 1, <<>>)

\* '/'.join(comps)
RECURSIVE Join(_)
Join(comps) ==
    IF comps = <<>> THEN <<>>
    ELSE IF Len(comps) = 1 THEN comps[1]
    ELSE comps[1] \o <<"/">> \o Join(Tail(comps))

StartsWith(s, n) == Len(s) >= n /\ \A i \in 1..n : s[i] = "/"

\* posixpath.normpath on paths that hold no "." and no ".." component:
\* runs of slashes collapse, a trailing slash goes, exactly two leading
\* slashes stay two, and the empty path is ".".
NormPath(s) ==
    LET lead == IF StartsWith(s, 2) /\ ~StartsWith(s, 3) THEN <<"/", "/">>
                ELSE IF StartsWith(s, 1) THEN <<"/">>
                ELSE <<>>
        p == lead \o Join(Split(s))
    IN IF p = <<>> THEN <<".">> ELSE p

\* os.path.abspath: a relative path is joined to the working directory.
AbsPath(s) ==
    IF StartsWith(s, 1) THEN NormPath(s)
    ELSE NormPath(Cwd \o <<"/">> \o s)

\* The file a path names: its components from the root.
Resolve(s) == Split(AbsPath(s))

\* The directories os.makedirs(path, exist_ok=True) makes sure exist.
MakeDirs(fs0, path) ==
    LET k == Resolve(path)
    IN fs0 \cup { SubSeq(k, 1, i) : i \in 0..Len(k) }

\* Whether the file `f` lies below the directory `d`.
IsUnder(f, d) ==
    /\ Len(f) > Len(d)
    /\ SubSeq(f, 1, Len(d)) = d

\* -------------------------------------------------------------- the state
VARIABLES
    constructed,            \* whether XLSXLogger.__init__ has returned
    work_directory,         \* self.work_directory
    screenshots_directory,  \* self.screenshots_directory
    filename,               \* self.filename
    workbook,               \* self.workbook: its formats and its closed flag
    worksheet,              \* self.worksheet: the cells written, by <<column, row>>
    _formats,               \* self._formats: message type -> format
    _current_row,           \* self._current_row
    fs,                     \* the paths that exist on disk
    disk_doc,               \* the cells of the output file on disk
    last,                   \* the most recent call and how it ended
    log,                    \* the log calls that returned, in call order
    instances               \* SpecTwo: the loggers instantiated so far

vars == << constructed, work_directory, screenshots_directory, filename,
           workbook, worksheet, _formats, _current_row, fs, disk_doc, last,
           log, instances >>

logger == << constructed, work_directory, screenshots_directory, filename,
             workbook, worksheet, _formats, _current_row >>

\* ------------------------------------------------------ LoggerMessageType
LoggerMessageType == { "INFO", "SUCCESS", "WARNING", "ERROR" }

\* ------------------------------------------------------------ the worksheet
\* Python's None, where a format is expected.
None == <<>>

\* A cell as xlsxwriter keeps it: what kind of cell, its text or target, and
\* a reference to its format object (None: written without a format).
Cell(kind, value, format) == [kind |-> kind, value |-> value, format |-> format]

\* worksheet.write(ref, token, format) for a string token: an empty string is
\* written as a blank cell, which xlsxwriter keeps only when it has a format.
Write(ws, col, row, token, format) ==
    IF token = <<>>
    THEN (IF format = None THEN ws
          ELSE (<<col, row>> :> Cell("blank", <<>>, format)) @@ ws)
    ELSE (<<col, row>> :> Cell("string", token, format)) @@ ws

\* worksheet.write_url(ref, url, cell_format=format, string=...)
WriteUrl(ws, col, row, url, format) ==
    (<<col, row>> :> Cell("url", url, format)) @@ ws

\* The background colour set_bg_color gives a message type ("": none set).
BgColor(message_type) ==
    IF message_type = "SUCCESS" THEN "#d4ffd4"
    ELSE IF message_type = "WARNING" THEN "#fff8d4"
    ELSE IF message_type = "ERROR" THEN "#ffd4d4"
    ELSE ""

\* workbook.add_format(): a new format object.  A reference to a format is
\* the object's identity, here the message type it was made for and its
\* serial number among the formats made for that type, which no two objects
\* share.
NewFormat(wb, message_type) ==
    << message_type,
       Cardinality({ f \in DOMAIN wb.formats : f[1] = message_type }) + 1 >>

\* _get_format without line 199: the new format is returned and not cached.
get_format_uncached(wb, cache, message_type) ==
    LET document_format == NewFormat(wb, message_type)
        properties == [border |-> 1, bg_color |-> BgColor(message_type)]
    IN [workbook |-> [wb EXCEPT !.formats = (document_format :> properties) @@ @],
        formats |-> cache,
        format |-> document_format]

\* XLSXLogger._get_format: the cached format of the message type, or a new
\* one (border style 1, the type's background colour) that is cached.
_get_format(wb, cache, message_type) ==
    IF message_type \in DOMAIN cache
    THEN [workbook |-> wb, formats |-> cache, format |-> cache[message_type]]
    ELSE LET document_format == NewFormat(wb, message_type)
             properties == [border |-> 1, bg_color |-> BgColor(message_type)]
         IN [workbook |->
                 [wb EXCEPT !.formats = (document_format :> properties) @@ @],
             formats |-> (message_type :> document_format) @@ cache,
             format |-> document_format]

\* XLSXLogger._create_worksheet: the header row (the column titles, here in
\* English) written without a format.
HeaderRow ==
    LET a == Write(<<>>, "A", 1, <<"Time">>, None)
        b == Write(a, "B", 1, <<"Type">>, None)
        c == Write(b, "C", 1, <<"Case Name">>, None)
        d == Write(c, "D", 1, <<"Message">>, None)
    IN Write(d, "E", 1, <<"Screenshot">>, None)

FirstDataRow == 2

\* strftime("%a, %d %b %Y %H:%M:%S", gmtime()): one reading of the wall
\* clock, formatted.
StrfTime == <<"Mon, 01 Jan 2024 10:00:00">>

\* The first four cells of a row (_write_log, before the screenshot).
write_cells(ws, row, message_type, case_name, message, format) ==
    LET a == Write(ws, "A", row, StrfTime, format)
        b == Write(a, "B", row, <<message_type>>, format)
        c == Write(b, "C", row, case_name, format)
    IN Write(c, "D", row, message, format)

\* _write_log without its last line: the cursor stays.
NextRowStays(row) == row

\* self._current_row += 1
NextRow(row) == row + 1

\* -------------------------------------------------------- create_screenshot
\* The file name create_screenshot builds in `directory` at clock reading t.
ScreenshotName(directory, t) ==
    RStrip(directory) \o <<"/">> \o <<ToString(t), ".png">>

\* create_screenshot when the capture succeeds: the image file is written
\* and its absolute path returned.
create_screenshot(fs0, directory, t) ==
    [fs |-> fs0 \cup { Resolve(ScreenshotName(directory, t)) },
     path |-> AbsPath(ScreenshotName(directory, t))]

\* ------------------------------------------------------ XLSXLogger.__init__
WorkDirectory(directory, t) == RStrip(directory) \o <<"/">> \o <<ToString(t)>>
ScreenshotsDirectory(wd) == wd \o <<"/", "screenshots", "/">>
Filename(wd) == wd \o <<"/">> \o <<"result">> \o <<".xlsx">>

\* A Workbook that created its file when it was constructed.
Workbook_creates_file(fs0, fn) ==
    [fs |-> fs0 \cup { Resolve(fn) },
     workbook |-> [formats |-> <<>>, fileclosed |-> FALSE]]

\* xlsxwriter.Workbook(filename): a workbook in memory, nothing on disk yet.
Workbook(fs0, fn) ==
    [fs |-> fs0, workbook |-> [formats |-> <<>>, fileclosed |-> FALSE]]

\* A call of the logger's interface as its caller sees it: the operation
\* ("init", "log", "save", "delete"), the method of a log call, its flag
\* argument (open_file, make_screenshot), the exception a collaborator raised
\* in it ("none": none did), the exception the call ended in ("none": it
\* returned), the collaborators it invoked in order, whether the document was
\* still open when it began, and what the viewer it launched found.
Call(op, method, arg, fault, raised, calls, was_open, viewed) ==
    [op |-> op, method |-> method, arg |-> arg, fault |-> fault,
     raised |-> raised, calls |-> calls, was_open |-> was_open,
     viewed |-> viewed]
NoCall == Call("none", "", FALSE, "none", "none", <<>>, FALSE, <<>>)

Init ==
    /\ constructed = FALSE
    /\ work_directory = <<>>
    /\ screenshots_directory = <<>>
    /\ filename = <<>>
    /\ workbook = [formats |-> <<>>, fileclosed |-> FALSE]
    /\ worksheet = <<>>
    /\ _formats = <<>>
    /\ _current_row = FirstDataRow
    /\ fs = MakeDirs({}, Cwd)
    /\ disk_doc = <<>>
    /\ last = NoCall
    /\ log = <<>>
    /\ instances = <<>>

\* XLSXLogger(directory) at clock reading t; `mk` and `wb` are what
\* os.makedirs and xlsxwriter.Workbook do.  An exception leaves the caller
\* without a logger.
XLSXLogger_init(directory, t, mk, wb) ==
    /\ ~constructed
    /\ last.op = "none"
    /\ work_directory' = WorkDirectory(directory, t)
    /\ screenshots_directory' = ScreenshotsDirectory(work_directory')
    /\ filename' = Filename(work_directory')
    /\ IF mk # "ok"
       THEN /\ last' = Call("init", "", FALSE, mk, mk, <<"makedirs">>, FALSE, <<>>)
            /\ UNCHANGED << constructed, workbook, worksheet, _formats,
                            _current_row, fs >>
       ELSE IF wb # "ok"
       THEN /\ fs' = MakeDirs(fs, screenshots_directory')
            /\ last' = Call("init", "", FALSE, wb, wb, <<"makedirs", "Workbook">>,
                            FALSE, <<>>)
            /\ UNCHANGED << constructed, workbook, worksheet, _formats,
                            _current_row >>
       ELSE LET made == Workbook(MakeDirs(fs, screenshots_directory'), filename')
            IN /\ fs' = made.fs
               /\ workbook' = made.workbook
               /\ worksheet' = HeaderRow
               /\ _formats' = <<>>
               /\ _current_row' = FirstDataRow
               /\ constructed' = TRUE
               /\ last' = Call("init", "", FALSE, "none", "none",
                               <<"makedirs", "Workbook">>, FALSE, <<>>)
    /\ UNCHANGED << disk_doc, log, instances >>

\* --------------------------------------------------- XLSXLogger._write_log
\* _write_log with the increment in a finally clause.
after_screenshot_always(row, raised) == NextRow(row)

\* The row cursor when _write_log ends: the increment is its last statement,
\* which an exception out of create_screenshot never reaches.
after_screenshot(row, raised) ==
    IF raised = "none" THEN NextRow(row) ELSE row

\* One log call of `method` (which passes `message_type`); `shot` is what the
\* screen capture does and t the clock reading that names the image.
_write_log(method, message_type, case_name, message, make_screenshot, shot, t) ==
    LET got == _get_format(workbook, _formats, message_type)
        cells == write_cells(worksheet, _current_row, message_type, case_name,
                             message, got.format)
        fault == IF make_screenshot /\ shot # "ok" THEN shot ELSE "none"
        made == create_screenshot(fs, screenshots_directory, t)
        entry == [method |-> method, case_name |-> case_name, message |-> message,
                  screenshot |-> IF make_screenshot THEN <<made.path>> ELSE <<>>]
    IN
    /\ constructed
    /\ workbook' = got.workbook
    /\ _formats' = got.formats
    /\ _current_row' = after_screenshot(_current_row, fault)
    /\ last' = Call("log", method, make_screenshot, fault, fault,
                    IF make_screenshot THEN <<"screenshot">> ELSE <<>>,
                    ~workbook.fileclosed, <<>>)
    /\ IF fault # "none"
       THEN /\ worksheet' = cells
            /\ UNCHANGED << fs, log >>
       ELSE IF make_screenshot
       THEN /\ fs' = made.fs
            /\ worksheet' = WriteUrl(cells, "E", _current_row, made.path, got.format)
            /\ log' = Append(log, entry)
       ELSE /\ worksheet' = Write(cells, "E", _current_row, <<>>, got.format)
            /\ log' = Append(log, entry)
            /\ UNCHANGED fs
    /\ UNCHANGED << constructed, work_directory, screenshots_directory, filename,
                    disk_doc, instances >>

info(case_name, message, make_screenshot, shot, t) ==
    _write_log("info", "INFO", case_name, message, make_screenshot, shot, t)

success(case_name, message, make_screenshot, shot, t) ==
    _write_log("success", "SUCCESS", case_name, message, make_screenshot, shot, t)

\* warning() passing the message type of error().
warning_as_error(case_name, message, make_screenshot, shot, t) ==
    _write_log("warning", "ERROR", case_name, message, make_screenshot, shot, t)

warning(case_name, message, make_screenshot, shot, t) ==
    _write_log("warning", "WARNING", case_name, message, make_screenshot, shot, t)

error(case_name, message, make_screenshot, shot, t) ==
    _write_log("error", "ERROR", case_name, message, make_screenshot, shot, t)

\* ------------------------------------------------- save, _close, _open
\* XLSXLogger._close: workbook.close() writes the document to disk and marks
\* the workbook closed; on a workbook already closed it does nothing.
\* `outcome` is what writing the file does.
_close(wb, ws, fs0, doc, fn, outcome) ==
    IF wb.fileclosed
    THEN [raised |-> "none", workbook |-> wb, fs |-> fs0, disk_doc |-> doc]
    ELSE IF outcome # "ok"
    THEN [raised |-> outcome, workbook |-> wb, fs |-> fs0, disk_doc |-> doc]
    ELSE [raised |-> "none",
          workbook |-> [wb EXCEPT !.fileclosed = TRUE],
          fs |-> fs0 \cup { Resolve(fn) },
          disk_doc |-> <<ws>>]

\* XLSXLogger._open: the viewer is launched on the file; what it finds.
_open(wb, fs0, fn) ==
    << [closed |-> wb.fileclosed, on_disk |-> Resolve(fn) \in fs0] >>

\* save with its two steps in the other order: _open, then _close.
save_open_first(wb, ws, fs0, doc, fn, open_file, outcome) ==
    LET c == _close(wb, ws, fs0, doc, fn, outcome)
    IN [raised |-> c.raised, workbook |-> c.workbook, fs |-> c.fs,
        disk_doc |-> c.disk_doc,
        calls |-> IF open_file THEN <<"open", "close">> ELSE <<"close">>,
        viewed |-> IF open_file THEN _open(wb, fs0, fn) ELSE <<>>]

\* XLSXLogger.save: _close, then _open when open_file is set.
save_steps(wb, ws, fs0, doc, fn, open_file, outcome) ==
    LET c == _close(wb, ws, fs0, doc, fn, outcome)
    IN [raised |-> c.raised, workbook |-> c.workbook, fs |-> c.fs,
        disk_doc |-> c.disk_doc,
        calls |-> IF c.raised = "none" /\ open_file THEN <<"close", "open">>
                  ELSE <<"close">>,
        viewed |-> IF c.raised = "none" /\ open_file
                   THEN _open(c.workbook, c.fs, fn) ELSE <<>>]

save(open_file, outcome) ==
    LET r == save_steps(workbook, worksheet, fs, disk_doc, filename, open_file,
                        outcome)
    IN
    /\ constructed
    /\ workbook' = r.workbook
    /\ fs' = r.fs
    /\ disk_doc' = r.disk_doc
    /\ last' = Call("save", "", open_file, r.raised, r.raised, r.calls,
                    ~workbook.fileclosed, r.viewed)
    /\ UNCHANGED << constructed, work_directory, screenshots_directory, filename,
                    worksheet, _formats, _current_row, log, instances >>

\* ------------------------------------------------------------------ delete
\* shutil.rmtree of the file's directory in place of os.remove.
os_remove_tree(fs0, path) ==
    LET k == Resolve(path)
        dir == SubSeq(k, 1, Len(k) - 1)
    IN IF k \in fs0
       THEN [raised |-> "none",
             fs |-> { f \in fs0 : f # dir /\ ~IsUnder(f, dir) }]
       ELSE [raised |-> "FileNotFoundError", fs |-> fs0]

\* os.remove(path): the file goes, or FileNotFoundError when there is none.
os_remove(fs0, path) ==
    IF Resolve(path) \in fs0
    THEN [raised |-> "none", fs |-> fs0 \ { Resolve(path) }]
    ELSE [raised |-> "FileNotFoundError", fs |-> fs0]

\* delete with the exception of os.remove caught and dropped.
delete_quiet ==
    LET r == os_remove(fs, filename)
    IN
    /\ constructed
    /\ fs' = r.fs
    /\ disk_doc' = IF Resolve(filename) \in r.fs THEN disk_doc ELSE <<>>
    /\ last' = Call("delete", "", FALSE, r.raised, "none", <<"remove">>,
                    ~workbook.fileclosed, <<>>)
    /\ UNCHANGED << logger, log, instances >>

delete ==
    LET r == os_remove(fs, filename)
    IN
    /\ constructed
    /\ fs' = r.fs
    /\ disk_doc' = IF Resolve(filename) \in r.fs THEN disk_doc ELSE <<>>
    /\ last' = Call("delete", "", FALSE, r.raised, r.raised, <<"remove">>,
                    ~workbook.fileclosed, <<>>)
    /\ UNCHANGED << logger, log, instances >>

\* ----------------------------------------------------- several loggers
\* One more XLSXLogger(directory) at clock reading t: the paths it owns.
Instantiate(directory, t) ==
    /\ Len(instances) < MaxInstances
    /\ instances' = Append(instances,
          [directory |-> directory,
           work_directory |-> WorkDirectory(directory, t),
           screenshots_directory |->
               ScreenshotsDirectory(WorkDirectory(directory, t)),
           filename |-> Filename(WorkDirectory(directory, t))])
    /\ fs' = MakeDirs(fs, ScreenshotsDirectory(WorkDirectory(directory, t)))
    /\ UNCHANGED << logger, disk_doc, last, log >>

\* --------------------------------------------------------- specifications
\* A log call may be made when it will fail, or while the bound on the
\* calls that return is not reached.
MayLog(make_screenshot, shot) ==
    \/ make_screenshot /\ shot # "ok"
    \/ Len(log) < MaxCalls

\* Spec: one logger through its whole life (construction, info("login") and
\* error("login", "timeout") calls with or without a screenshot, save and
\* delete in any order) with every collaborator free to fail and the clock
\* free to return any reading when a screenshot is named.
InfoArgs == { << <<"login">>, <<>> >> }
ErrorArgs == { << <<"login">>, <<"timeout">> >> }
LifeDirs == { <<>>, <<"run", "/">> }

Construct ==
    \E d \in LifeDirs, mk \in Outcomes, wb \in Outcomes :
        XLSXLogger_init(d, 1, mk, wb)

Info ==
    \E a \in InfoArgs, ms \in BOOLEAN, shot \in Outcomes, t \in Times :
        MayLog(ms, shot) /\ info(a[1], a[2], ms, shot, t)

Error ==
    \E a \in ErrorArgs, ms \in BOOLEAN, shot \in Outcomes, t \in Times :
        MayLog(ms, shot) /\ error(a[1], a[2], ms, shot, t)

Save == \E open_file \in BOOLEAN, outcome \in Outcomes : save(open_file, outcome)

Delete == delete

Next == Construct \/ Info \/ Error \/ Save \/ Delete

Spec == Init /\ [][Next]_vars

\* SpecRows: the row protocol of one logger: log calls of all four methods
\* with every argument varied, on a clock that ticks once per row.
RowsConstruct == XLSXLogger_init(<<"run", "/">>, 1, "ok", "ok")

RowsInfo ==
    \E a \in Args, ms \in BOOLEAN, shot \in Outcomes :
        MayLog(ms, shot) /\ info(a[1], a[2], ms, shot, _current_row)

RowsSuccess ==
    \E a \in Args, ms \in BOOLEAN, shot \in Outcomes :
        MayLog(ms, shot) /\ success(a[1], a[2], ms, shot, _current_row)

RowsWarning ==
    \E a \in Args, ms \in BOOLEAN, shot \in Outcomes :
        MayLog(ms, shot) /\ warning(a[1], a[2], ms, shot, _current_row)

RowsError ==
    \E a \in Args, ms \in BOOLEAN, shot \in Outcomes :
        MayLog(ms, shot) /\ error(a[1], a[2], ms, shot, _current_row)

NextRows == RowsConstruct \/ RowsInfo \/ RowsSuccess \/ RowsWarning \/ RowsError

SpecRows == Init /\ [][NextRows]_vars

\* SpecTwo: several loggers instantiated, each at any clock reading.
NextTwo == \E d \in BaseDirs, t \in Times : Instantiate(d, t)

SpecTwo == Init /\ [][NextTwo]_vars

\* ================================================================ claims
Cols == { "A", "B", "C", "D", "E" }

\* The tag each method of the interface stands for.
Tag == [info |-> "INFO", success |-> "SUCCESS", warning |-> "WARNING",
        error |-> "ERROR"]

\* The fixed colour table.
ColorTable == [INFO |-> "", SUCCESS |-> "#d4ffd4", WARNING |-> "#fff8d4",
               ERROR |-> "#ffd4d4"]

HasCell(ws, c, r) == <<c, r>> \in DOMAIN ws

\* The rows below the header that hold a cell.
DataRows(ws) == { x[2] : x \in { y \in DOMAIN ws : y[2] > 1 } }

\* Row r holds the arguments of the log call e in its five cells.
RowHoldsCall(ws, r, e) ==
    /\ \A c \in Cols : HasCell(ws, c, r)
    /\ ws[<<"A", r>>].kind = "string"
    /\ ws[<<"C", r>>].kind = "string" /\ ws[<<"C", r>>].value = e.case_name
    /\ ws[<<"D", r>>].value = e.message
    /\ ws[<<"D", r>>].kind = (IF e.message = <<>> THEN "blank" ELSE "string")
    /\ IF e.screenshot = <<>>
       THEN ws[<<"E", r>>].kind = "blank"
       ELSE ws[<<"E", r>>].kind = "url" /\ ws[<<"E", r>>].value = e.screenshot[1]

\* The last call was a log call whose screenshot capture failed.
LogFailed == last.op = "log" /\ last.raised # "none"

\* ---- C1
C1Inv ==
    IF ~constructed
    THEN worksheet = <<>> /\ _current_row = 2
    ELSE /\ _current_row = Len(log) + 2
         /\ \A c \in Cols :
               HasCell(worksheet, c, 1) /\ worksheet[<<c, 1>>] = HeaderRow[<<c, 1>>]
         /\ \A k \in 1..Len(log) : RowHoldsCall(worksheet, k + 1, log[k])
         /\ DataRows(worksheet) =
               (2..(Len(log) + 1)) \cup (IF LogFailed THEN {_current_row} ELSE {})

C1Step ==
    /\ _current_row' >= _current_row
    /\ Len(log') = Len(log) + 1 => _current_row' = _current_row + 1
    /\ \A x \in DOMAIN worksheet :
          x[2] < _current_row => x \in DOMAIN worksheet' /\ worksheet'[x] = worksheet[x]

\* C1: after n log calls that returned, the document holds n data rows: the
\* k-th call is in row k+1, in call order; the header stays in row 1; a row
\* once written is never changed by a later log call; the row cursor starts
\* at 2, never decreases and is n+2 after the n-th call.  (The only other row
\* that can hold cells is the cursor row, after a log call that failed.)
C1_OneRowPerCall == [](C1Inv) /\ [][C1Step]_vars

\* Two calls have returned, the second with a screenshot.
C1_Witness ==
    /\ Len(log) = 2
    /\ log[1].method = "info" /\ log[2].method = "error"
    /\ log[2].screenshot # <<>>
    /\ _current_row = 4

\* ---- C2
\* The row the last log call wrote: the cursor row as the call found it.
LastRow == IF last.raised = "none" THEN _current_row - 1 ELSE _current_row

\* C2: the Type cell of the row a log call wrote is the tag of the method
\* that was invoked, whatever the case name, the message, make_screenshot and
\* the earlier calls (and whether the call returned or its screenshot failed).
C2_TypeIsMethodTag ==
    /\ \A k \in 1..Len(log) :
          /\ HasCell(worksheet, "B", k + 1)
          /\ worksheet[<<"B", k + 1>>].kind = "string"
          /\ worksheet[<<"B", k + 1>>].value = << Tag[log[k].method] >>
    /\ last.op = "log" =>
          /\ HasCell(worksheet, "B", LastRow)
          /\ worksheet[<<"B", LastRow>>] =
                 Cell("string", << Tag[last.method] >>, _formats[Tag[last.method]])

\* A warning row with a screenshot after a success row without a message.
C2_Witness ==
    /\ Len(log) = 2
    /\ log[1].method = "success" /\ log[1].message = <<>>
    /\ log[2].method = "warning" /\ log[2].screenshot # <<>>

\* ---- C3
\* The format objects made for a message type.
StylesOf(message_type) ==
    { f \in DOMAIN workbook.formats : f[1] = message_type }

C3Inv ==
    /\ \A mt \in LoggerMessageType :
          /\ Cardinality(StylesOf(mt)) <= 1
          /\ mt \in DOMAIN _formats <=> StylesOf(mt) # {}
          /\ mt \in DOMAIN _formats =>
                /\ _formats[mt] \in StylesOf(mt)
                /\ workbook.formats[_formats[mt]] =
                       [border |-> 1, bg_color |-> ColorTable[mt]]
    /\ \A x \in DOMAIN worksheet :
          x[2] > 1 =>
             /\ HasCell(worksheet, "B", x[2])
             /\ worksheet[<<"B", x[2]>>].value[1] \in DOMAIN _formats
             /\ worksheet[x].format = _formats[worksheet[<<"B", x[2]>>].value[1]]
    /\ \A m1 \in DOMAIN _formats, m2 \in DOMAIN _formats :
          m1 # m2 =>
             /\ _formats[m1] # _formats[m2]
             /\ workbook.formats[_formats[m1]].bg_color #
                    workbook.formats[_formats[m2]].bg_color

C3Step ==
    \A mt \in DOMAIN _formats :
        /\ mt \in DOMAIN _formats'
        /\ _formats'[mt] = _formats[mt]
        /\ _formats[mt] \in DOMAIN workbook'.formats
        /\ workbook'.formats[_formats[mt]] = workbook.formats[_formats[mt]]

\* C3: a logger has at most one style object per severity, made by the first
\* log call of that severity and never replaced or made again; every cell of
\* every row of a severity uses it; it has a thin border and the background
\* colour of the fixed table, so the styles of two severities differ.
C3_OneStylePerSeverity == [](C3Inv) /\ [][C3Step]_vars

\* Two rows of one severity, and the style of another severity cached too.
C3_Witness ==
    /\ Len(log) = 2
    /\ log[1].method = "success" /\ log[2].method = "success"
    /\ worksheet[<<"E", 2>>].format = worksheet[<<"A", 3>>].format
    /\ "ERROR" \in DOMAIN _formats

\* ---- C4
\* The image files in the logger's screenshots directory.
ScreenshotFiles == { f \in fs : IsUnder(f, Resolve(screenshots_directory)) }

\* The log calls that returned and were made with make_screenshot set.
ScreenshotCalls == { k \in 1..Len(log) : log[k].screenshot # <<>> }

\* C4: every log call with make_screenshot set creates one new image file
\* under <work_dir>/screenshots/ and its Screenshot cell links to that file;
\* a call without it creates no file and leaves the cell empty; so there are
\* as many screenshot files as calls made with make_screenshot set, and every
\* link points to a file that exists.
C4_OneFilePerScreenshot ==
    constructed =>
        /\ Cardinality(ScreenshotFiles) = Cardinality(ScreenshotCalls)
        /\ \A k \in 1..Len(log) :
              IF k \in ScreenshotCalls
              THEN /\ worksheet[<<"E", k + 1>>].kind = "url"
                   /\ Resolve(worksheet[<<"E", k + 1>>].value) \in ScreenshotFiles
              ELSE worksheet[<<"E", k + 1>>].kind = "blank"

\* What does hold of the screenshots: each link is the absolute path of a
\* file that exists under the screenshots directory, a row without a
\* screenshot has an empty cell, and there are no more files than calls made
\* with make_screenshot set.
ScreenshotLinksExist ==
    constructed =>
        /\ Cardinality(ScreenshotFiles) <= Cardinality(ScreenshotCalls)
        /\ \A k \in 1..Len(log) :
              IF k \in ScreenshotCalls
              THEN /\ worksheet[<<"E", k + 1>>].kind = "url"
                   /\ worksheet[<<"E", k + 1>>].value = log[k].screenshot[1]
                   /\ AbsPath(log[k].screenshot[1]) = log[k].screenshot[1]
                   /\ Resolve(log[k].screenshot[1]) \in ScreenshotFiles
              ELSE worksheet[<<"E", k + 1>>].kind = "blank"

\* ---- C5
\* C5: a save that finds the document open leaves it closed and on disk with
\* every entry logged before it; save launches the viewer once when open_file
\* is set and never otherwise; and the viewer is launched only on a document
\* that the same save call has closed before.
C5_SaveClosesThenOpens ==
    /\ last.op # "save" => last.viewed = <<>>
    /\ last.op = "save" /\ last.raised # "none" =>
          last.viewed = <<>> /\ ~workbook.fileclosed
    /\ last.op = "save" /\ last.raised = "none" =>
          /\ workbook.fileclosed
          /\ Len(last.viewed) = (IF last.arg THEN 1 ELSE 0)
          /\ last.calls = (IF last.arg THEN <<"close", "open">> ELSE <<"close">>)
          /\ last.was_open =>
                /\ Resolve(filename) \in fs
                /\ disk_doc = <<worksheet>>
                /\ \A k \in 1..Len(log) : RowHoldsCall(disk_doc[1], k + 1, log[k])
    /\ \A i \in 1..Len(last.viewed) :
          /\ last.viewed[i].closed
          /\ last.was_open => last.viewed[i].on_disk

\* save(open_file=true) has closed a document of two rows and launched the viewer.
C5_Witness ==
    /\ last.op = "save" /\ last.arg /\ last.raised = "none" /\ last.was_open
    /\ Len(log) = 2
    /\ Len(last.viewed) = 1

\* ---- C6
C6Step ==
    last'.op = "delete" /\ last'.raised = "none" =>
        /\ Resolve(filename) \in fs
        /\ Resolve(filename) \notin fs'
        /\ fs' = fs \ { Resolve(filename) }
        /\ \A k \in ScreenshotCalls : Resolve(log[k].screenshot[1]) \in fs'
        /\ Resolve(screenshots_directory) \in fs'
        /\ Resolve(work_directory) \in fs'
        /\ UNCHANGED << constructed, work_directory, screenshots_directory,
                        filename, workbook, worksheet, _formats, _current_row >>

\* C6: a delete that succeeds removes the output file and nothing else: the
\* file's path no longer exists, and the screenshot files, the screenshots
\* directory, the work directory and the logger's state in memory (row
\* cursor, format cache, file name) are as before.
C6_DeleteRemovesOnlyTheFile == [][C6Step]_vars

\* The file of a logger with a captured screenshot has been deleted.
C6_Witness ==
    /\ last.op = "delete" /\ last.raised = "none"
    /\ ScreenshotCalls # {}
    /\ ScreenshotFiles # {}
    /\ Resolve(filename) \notin fs

\* ---- C7
C7Inv ==
    /\ last.op # "none" /\ ~workbook.fileclosed => Resolve(filename) \notin fs
    /\ workbook.fileclosed => constructed
    /\ disk_doc # <<>> <=> (constructed /\ Resolve(filename) \in fs)

C7Step ==
    last'.op = "delete" /\ (Resolve(filename) \notin fs) =>
        /\ last'.raised = "FileNotFoundError"
        /\ fs' = fs
        /\ disk_doc' = disk_doc
        /\ UNCHANGED << constructed, work_directory, screenshots_directory,
                        filename, workbook, worksheet, _formats, _current_row >>

\* C7: the output file exists only once save has closed the document: no
\* state reached by construction and log calls alone has it.  A delete while
\* the file does not exist (before the first save, or after a delete) ends in
\* the missing-file error and changes neither the disk nor the logger.
C7_FileOnlyOnceSaved == [](C7Inv) /\ [][C7Step]_vars

\* A delete before any save, on a logger that has logged, has failed.
C7_Witness ==
    /\ last.op = "delete" /\ last.raised = "FileNotFoundError"
    /\ ~workbook.fileclosed
    /\ Len(log) >= 1

\* ---- C8
\* C8: two loggers constructed with the same base directory have different
\* work directories, and so different output files and screenshots
\* directories.
C8_UniqueWorkDirectory ==
    \A i \in 1..Len(instances), j \in 1..Len(instances) :
        i # j /\ instances[i].directory = instances[j].directory =>
            /\ instances[i].work_directory # instances[j].work_directory
            /\ instances[i].filename # instances[j].filename
            /\ instances[i].screenshots_directory #
                   instances[j].screenshots_directory

\* ---- C9
NoRepeat(calls) ==
    \A i \in 1..Len(calls), j \in 1..Len(calls) : i # j => calls[i] # calls[j]

\* C9: when a collaborator fails (directory creation or document open in the
\* constructor, screenshot capture in a log call, removal of a missing file
\* in delete), the call ends in that same exception at once: the collaborator
\* was invoked once and nothing after it ran, and the call did not return.
C9_FailuresPropagate ==
    last.fault # "none" =>
        /\ last.raised = last.fault
        /\ NoRepeat(last.calls)
        /\ last.op = "init" =>
              /\ ~constructed
              /\ last.calls \in { <<"makedirs">>, <<"makedirs", "Workbook">> }
              /\ last.calls = <<"makedirs">> =>
                    Resolve(screenshots_directory) \notin fs
        /\ last.op = "log" =>
              /\ last.calls = <<"screenshot">>
              /\ _current_row = Len(log) + 2
              /\ ~HasCell(worksheet, "E", _current_row)
              /\ Cardinality(ScreenshotFiles) <= Cardinality(ScreenshotCalls)
        /\ last.op = "delete" =>
              /\ last.calls = <<"remove">>
              /\ last.fault = "FileNotFoundError"
              /\ Resolve(filename) \notin fs
        /\ last.op = "save" => last.calls = <<"close">> /\ last.viewed = <<>>

\* A log call's screenshot capture has failed after an earlier call returned.
C9_Witness ==
    /\ last.op = "log" /\ last.fault = "OSError" /\ last.raised = "OSError"
    /\ Len(log) = 1

\* ---- C10
\* The rows of a document that hold the first four cells and no fifth.
PartialRows(ws) ==
    { r \in DataRows(ws) :
         /\ \A c \in { "A", "B", "C", "D" } : HasCell(ws, c, r)
         /\ ~HasCell(ws, "E", r) }

\* The rows of a document that hold all five cells.
FullRows(ws) == { r \in DataRows(ws) : \A c \in Cols : HasCell(ws, c, r) }

C10Inv ==
    constructed =>
        /\ _current_row = Len(log) + 2
        /\ \A k \in 1..Len(log) : RowHoldsCall(worksheet, k + 1, log[k])
        /\ FullRows(worksheet) = 2..(_current_row - 1)
        /\ DataRows(worksheet) \ FullRows(worksheet) \subseteq
               PartialRows(worksheet) \cap {_current_row}
        /\ LogFailed => PartialRows(worksheet) = {_current_row}
        /\ disk_doc # <<>> =>
              /\ \A k \in 1..Len(log) :
                    k + 1 \in FullRows(disk_doc[1]) =>
                        RowHoldsCall(disk_doc[1], k + 1, log[k])
              /\ \E m \in 0..Len(log) :
                    /\ FullRows(disk_doc[1]) = 2..(m + 1)
                    /\ DataRows(disk_doc[1]) \ FullRows(disk_doc[1]) \subseteq
                           PartialRows(disk_doc[1]) \cap {m + 2}

C10Step ==
    /\ last'.op = "log" /\ last'.raised # "none" =>
          /\ _current_row' = _current_row
          /\ log' = log
          /\ PartialRows(worksheet') = {_current_row}
    /\ last'.op = "log" /\ last'.raised = "none" =>
          /\ _current_row' = _current_row + 1
          /\ _current_row \in FullRows(worksheet')
          /\ RowHoldsCall(worksheet', _current_row, log'[Len(log')])

\* C10: a log call whose screenshot capture fails has written the first four
\* cells of the cursor row and does not advance the cursor; the next call
\* that returns writes all five cells of that row.  So rows 2..cursor-1 are
\* the calls that returned, in call order and without gaps, and only the
\* cursor row can hold a failed call's cells (in the saved document: only the
\* row after the last full one).
C10_FailedCallKeepsCursor == [](C10Inv) /\ [][C10Step]_vars

\* A saved document that shows the cells of a failed call below a full row.
C10_Witness ==
    /\ disk_doc # <<>>
    /\ FullRows(disk_doc[1]) = {2}
    /\ PartialRows(disk_doc[1]) = {3}
    /\ Len(log) = 2

====
